---- MODULE Spec2Model ----
(***************************************************************************)
(* Verification model of the hgcal training scripts:                       *)
(*   src/train_taus_with_props.py  (softclip, calc_Lp, loss_fn, train,     *)
(*                                  test, write_checkpoint, epoch loop)    *)
(*   src/train_taus.py             (annealed loss_fn, test, epoch loop)    *)
(*   src/colorwheel.py             (ColorWheel)                            *)
(*                                                                         *)
(* Floating point values are modelled as records: a finite value is an     *)
(* integer (losses in units of 1.0, softclip arguments in units of 0.001), *)
(* plus the IEEE specials inf and nan that 1./0. and inf*0. produce.       *)
(***************************************************************************)
EXTENDS Integers, Sequences, FiniteSets, TLC

\* ------------------------------------------------------------------------
\* Floating point values
\* ------------------------------------------------------------------------
Fin(x) == [k |-> "fin", v |-> x]
NaN == [k |-> "nan", v |-> 0]
PInf == [k |-> "inf", v |-> 1]
NInf == [k |-> "inf", v |-> -1]

IsFinite(a) == a.k = "fin"
IsNaN(a) == a.k = "nan"

Sign(x) == IF x > 0 THEN 1 ELSE IF x < 0 THEN -1 ELSE 0

\* a + b
FAdd(a, b) ==
    IF IsNaN(a) \/ IsNaN(b) THEN NaN
    ELSE IF a.k = "inf" /\ b.k = "inf" THEN (IF a.v = b.v THEN a ELSE NaN)
    ELSE IF a.k = "inf" THEN a
    ELSE IF b.k = "inf" THEN b
    ELSE Fin(a.v + b.v)

\* a * b
FMul(a, b) ==
    IF IsNaN(a) \/ IsNaN(b) THEN NaN
    ELSE IF a.k = "inf" \/ b.k = "inf"
         THEN (IF Sign(a.v) * Sign(b.v) = 0 THEN NaN
               ELSE IF Sign(a.v) * Sign(b.v) > 0 THEN PInf ELSE NInf)
    ELSE Fin(a.v * b.v)

\* a / n for a positive count n (batch_size, N_test)
FDivN(a, n) ==
    IF IsFinite(a) THEN Fin(a.v \div n) ELSE a

\* 1./s as a float: 1./0. is inf
FRecipMul(s, x) ==
    IF s = 0 THEN FMul(PInf, Fin(x)) ELSE Fin(x \div s)

\* a < b, false whenever a nan is involved
FLt(a, b) ==
    IF IsNaN(a) \/ IsNaN(b) THEN FALSE
    ELSE IF a.k = "inf" /\ b.k = "inf" THEN a.v < b.v
    ELSE IF a.k = "inf" THEN a.v < 0
    ELSE IF b.k = "inf" THEN b.v > 0
    ELSE a.v < b.v

\* ------------------------------------------------------------------------
\* torch.log on fixed point numbers (argument and result in units of 0.001)
\* ------------------------------------------------------------------------
Milli == 1000
Ln2Milli == 693

RECURSIVE LnMilli(_)
LnMilli(y) ==
    IF y >= 2 * Milli THEN Ln2Milli + LnMilli(y \div 2)
    ELSE LET z  == ((y - Milli) * Milli) \div (y + Milli)
             z2 == (z * z) \div Milli
             z3 == (z2 * z) \div Milli
             z5 == (z3 * z2) \div Milli
             z7 == (z5 * z2) \div Milli
         IN  2 * (z + z3 \div 3 + z5 \div 5 + z7 \div 7)

\* ------------------------------------------------------------------------
\* softclip (train_taus_with_props.py:16-19); array in units of 0.001,
\* start_clip_value in units of 1.0
\* ------------------------------------------------------------------------
softclip(array, start_clip_value) ==
    LET scaled  == array \div start_clip_value
        clipped == IF scaled > Milli THEN LnMilli(scaled + Milli) ELSE scaled
    IN  clipped * start_clip_value

\* ------------------------------------------------------------------------
\* Batches: what the loader yields and the model predicts for them
\* ------------------------------------------------------------------------
\* batch_size = 4 (train_taus_with_props.py:90)
batch_size == 4
\* loss_offset = 1. (train_taus_with_props.py:131, train_taus.py:81)
loss_offset == 1
\* the default s_c=1. of loss_fn (train_taus_with_props.py:133)
s_c == 1
\* i_epoch <= 7 (train_taus.py:122)
last_annealed_epoch == 7

\* points of one batch
MaxPoints == 2

\* A point: truth cluster index y, predicted beta in units of 0.01, and the
\* values calc_L_energy and calc_L_position give for its predicted and
\* truth properties (both are softclipped, hence >= 0).
Points ==
    { [y |-> 0, beta |-> 76, L_energy |-> 8,  L_position |-> 4],
      [y |-> 1, beta |-> 76, L_energy |-> 8,  L_position |-> 4],
      [y |-> 2, beta |-> 96, L_energy |-> 16, L_position |-> 8] }

\* values oc.calc_LV_Lbeta returns (external; opaque to these scripts)
LVValues == {-3, 2}
LbetaValues == {0, 1}

\* A batch: its points, the number of events it holds (a final batch of the
\* loader may hold fewer than batch_size), and what oc.calc_LV_Lbeta returns
\* for the model's output on it.
Batches ==
    [points : UNION {[1..n -> Points] : n \in 1..MaxPoints},
     n_events : 1..batch_size,
     L_V : LVValues,
     L_beta : LbetaValues]

\* torch.arctanh of a beta in units of 0.01, result in units of 0.001
arctanh(beta) == LnMilli(((100 + beta) * Milli) \div (100 - beta)) \div 2

\* xi = zeros; xi[is_sig] = pred_beta[is_sig].arctanh()
xi(point) == IF point.y > 0 THEN arctanh(point.beta) ELSE 0

RECURSIVE SumXi(_)
SumXi(points) ==
    IF points = <<>> THEN 0 ELSE xi(Head(points)) + SumXi(Tail(points))

\* (xi * L).sum() for L = L_energy
RECURSIVE SumXiEnergy(_)
SumXiEnergy(points) ==
    IF points = <<>> THEN 0
    ELSE xi(Head(points)) * Head(points).L_energy + SumXiEnergy(Tail(points))

\* (xi * L).sum() for L = L_position
RECURSIVE SumXiPosition(_)
SumXiPosition(points) ==
    IF points = <<>> THEN 0
    ELSE xi(Head(points)) * Head(points).L_position + SumXiPosition(Tail(points))

\* xi_weighting: 1./xi_sum * (xi * L).sum() / batch_size
xi_weighting(xi_sum, xi_L_sum, n) == FDivN(FRecipMul(xi_sum, xi_L_sum), n)

\* calc_Lp(..., batch_size, return_components=True)
calc_Lp(points, n) ==
    LET xi_sum == SumXi(points)
        L_p_energy_weighted == xi_weighting(xi_sum, SumXiEnergy(points), n)
        L_p_position_weighted == xi_weighting(xi_sum, SumXiPosition(points), n)
    IN  [L_p_energy |-> L_p_energy_weighted,
         L_p_position |-> L_p_position_weighted,
         L_p |-> FAdd(L_p_energy_weighted, L_p_position_weighted)]

\* the batch_size argument loss_fn hands to calc_Lp
calc_Lp_batch_size(data) == batch_size

\* oc.calc_LV_Lbeta(..., return_components=True)
calc_LV_Lbeta(data) == [L_V |-> Fin(data.L_V), L_beta |-> Fin(data.L_beta)]

DictMerge(a, b) ==
    [k \in (DOMAIN a) \cup (DOMAIN b) |-> IF k \in DOMAIN b THEN b[k] ELSE a[k]]

\* loss_fn's component mapping with the offset left out of L_total
loss_fn_props_components_no_offset(data) ==
    LET out_oc == DictMerge(calc_LV_Lbeta(data),
                            calc_Lp(data.points, calc_Lp_batch_size(data)))
    IN  DictMerge(out_oc,
                  [L_total |-> FAdd(FMul(Fin(s_c), FAdd(out_oc.L_V, out_oc.L_beta)),
                                    out_oc.L_p)])

\* train_taus_with_props.py loss_fn(out, data, return_components=True):
\* out_oc['L_total'] = s_c*(out_oc['L_V']+out_oc['L_beta']) + out_oc['L_p'] + loss_offset
loss_fn_props_components(data) ==
    LET out_oc == DictMerge(calc_LV_Lbeta(data),
                            calc_Lp(data.points, calc_Lp_batch_size(data)))
    IN  DictMerge(out_oc,
                  [L_total |-> FAdd(FAdd(FMul(Fin(s_c), FAdd(out_oc.L_V, out_oc.L_beta)),
                                         out_oc.L_p),
                                    Fin(loss_offset))])

\* train_taus_with_props.py loss_fn(out, data):
\* return s_c*(L_V + L_beta) + L_p + loss_offset
loss_fn_props(data) ==
    LET out_oc == calc_LV_Lbeta(data)
        L_V == out_oc.L_V
        L_beta == out_oc.L_beta
        L_p == calc_Lp(data.points, calc_Lp_batch_size(data)).L_p
    IN  FAdd(FAdd(FMul(Fin(s_c), FAdd(L_V, L_beta)), L_p), Fin(loss_offset))

\* the annealing test off by one: i_epoch < 7
annealed_off_by_one(i_epoch) == i_epoch < last_annealed_epoch

\* if i_epoch <= 7
annealed(i_epoch) == i_epoch <= last_annealed_epoch

\* train_taus.py loss_fn(out, data, i_epoch=epoch)
loss_fn_taus(data, i_epoch) ==
    LET out_oc == calc_LV_Lbeta(data) IN
    IF annealed(i_epoch)
    THEN FAdd(out_oc.L_V, Fin(loss_offset))
    ELSE FAdd(FAdd(out_oc.L_V, out_oc.L_beta), Fin(loss_offset))

\* train_taus.py loss_fn(out, data, return_components=True)
loss_fn_taus_components(data) == calc_LV_Lbeta(data)

Scripts == {"train_taus", "train_taus_with_props"}

loss_fn(script, data, i_epoch) ==
    IF script = "train_taus" THEN loss_fn_taus(data, i_epoch) ELSE loss_fn_props(data)

loss_fn_components(script, data) ==
    IF script = "train_taus" THEN loss_fn_taus_components(data)
    ELSE loss_fn_props_components(data)

\* test(): update(components)
update(loss_components, components) ==
    [k \in (DOMAIN loss_components) \cup (DOMAIN components) |->
        IF k \in DOMAIN components
        THEN FAdd(IF k \in DOMAIN loss_components THEN loss_components[k] ELSE Fin(0),
                  components[k])
        ELSE loss_components[k]]

\* test(): loss_components[key] /= N_test
averaged(loss_components, N_test) ==
    [k \in DOMAIN loss_components |-> FDivN(loss_components[k], N_test)]

\* test(): the value returned, from the averaged components
test_loss_of(script, avg) ==
    IF script = "train_taus"
    THEN FAdd(FAdd(Fin(loss_offset), avg.L_V), avg.L_beta)
    ELSE avg.L_total

\* ------------------------------------------------------------------------
\* State
\* ------------------------------------------------------------------------
VARIABLES
    \* softclip under test: two inputs, the threshold, the two outputs
    array_x, array_y, start_clip_value, clip_x, clip_y,
    \* ColorWheel instance (colorwheel.py) and the history of its calls
    colors, original_colors, assigned_colors, returned, wheel_error, n_ops,
    \* loss_fn and test() as functions: which one is applied, of which script,
    \* to which batch; the scalar per epoch index, the component mapping, the
    \* batch_size handed to calc_Lp; test()'s accumulator and result, and the
    \* training scalars and clustering losses of the batches test() has seen
    fn, script, data, i_epoch, train_losses, components, lp_batch_size,
    loss_components, N_test, n_seen, test_loss, val_scalars, val_LV, val_Lbeta,
    \* main(): the command line (args.dry, args.settings_Sep01), the size of
    \* train_dataset, the place in the program, the loader's next batch, the
    \* source-file ids of the batch bound to data, the loss of train(), the
    \* model (train/eval mode, parameters as the number of optimizer steps
    \* taken), min_loss, the checkpoint files, the exception in flight and
    \* what the except clause printed; and, as history, the events of the
    \* current epoch, the epochs completed, their validation totals, the
    \* epochs that saved ckpt_best, and the exception first raised with the
    \* ids of the batch it was raised on
    dry, settings_Sep01, n_train, pc, i_batch, inpz, loss, training, params,
    min_loss, ckpt_epoch, ckpt_best, exc, printed,
    log, epochs_done, val_totals, best_epochs, raised_exc, raised_inpz

clipVars == <<array_x, array_y, start_clip_value, clip_x, clip_y>>
wheelVars == <<colors, original_colors, assigned_colors, returned, wheel_error, n_ops>>
\* variables of the loss functions alone
lossOnlyVars == <<fn, train_losses, components, lp_batch_size, loss_components,
                  n_seen, val_scalars, val_LV, val_Lbeta>>
\* variables loss_fn/test() and main() both have
sharedVars == <<script, data, i_epoch, N_test, test_loss>>
lossVars == <<lossOnlyVars, sharedVars>>
loopVars == <<dry, settings_Sep01, n_train, pc, i_batch, inpz, loss, training, params,
              min_loss, ckpt_epoch, ckpt_best, exc, printed,
              log, epochs_done, val_totals, best_epochs, raised_exc, raised_inpz>>
vars == <<clipVars, wheelVars, lossVars, loopVars>>

NotComputed == -1

ClipIdle ==
    /\ array_x = 0 /\ array_y = 0 /\ start_clip_value = 1
    /\ clip_x = NotComputed /\ clip_y = NotComputed

WheelIdle ==
    /\ colors = <<>> /\ original_colors = <<>>
    /\ assigned_colors = <<>> /\ returned = <<>>
    /\ wheel_error = "none" /\ n_ops = 0

\* no float yet
NoValue == [k |-> "none", v |-> 0]
\* no batch bound to data
NoBatch == [points |-> <<>>, n_events |-> 0, L_V |-> 0, L_beta |-> 0]

LossIdle ==
    /\ fn = "none" /\ script = "none" /\ data = NoBatch /\ i_epoch = 0
    /\ train_losses = <<>> /\ components = <<>> /\ lp_batch_size = NotComputed
    /\ loss_components = <<>> /\ N_test = 0 /\ n_seen = 0 /\ test_loss = NoValue
    /\ val_scalars = <<>> /\ val_LV = 0 /\ val_Lbeta = 0

LoopIdle ==
    /\ dry = FALSE /\ settings_Sep01 = FALSE /\ n_train = 0 /\ pc = "none"
    /\ i_batch = 0 /\ inpz = {} /\ loss = NoValue /\ training = FALSE /\ params = 0
    /\ min_loss = NoValue /\ ckpt_epoch = <<>> /\ ckpt_best = NotComputed
    /\ exc = "none" /\ printed = {}
    /\ log = <<>> /\ epochs_done = <<>> /\ val_totals = <<>> /\ best_epochs = {}
    /\ raised_exc = "none" /\ raised_inpz = {}

\* ------------------------------------------------------------------------
\* Specification of softclip as a pure function
\* ------------------------------------------------------------------------
\* largest input, in steps of ClipStep
MaxClipIdx == 42
\* 0.3 in units of 0.001: a step every threshold in use (3., 6., 10.) divides
ClipStep == 300
\* thresholds the callers pass: calc_L_position 3., calc_L_time 6., calc_L_energy 10.
ClipThresholds == {3, 6, 10}

ClipInputs == {i * ClipStep : i \in 0..MaxClipIdx}

ClipInit ==
    /\ array_x \in ClipInputs
    /\ array_y \in ClipInputs
    /\ start_clip_value \in ClipThresholds
    /\ clip_x = NotComputed
    /\ clip_y = NotComputed
    /\ WheelIdle
    /\ LossIdle
    /\ LoopIdle

SoftclipX ==
    /\ clip_x = NotComputed
    /\ clip_x' = softclip(array_x, start_clip_value)
    /\ UNCHANGED <<array_x, array_y, start_clip_value, clip_y, wheelVars, lossVars, loopVars>>

SoftclipY ==
    /\ clip_y = NotComputed
    /\ clip_y' = softclip(array_y, start_clip_value)
    /\ UNCHANGED <<array_x, array_y, start_clip_value, clip_x, wheelVars, lossVars, loopVars>>

ClipNext == SoftclipX \/ SoftclipY

ClipSpec == ClipInit /\ [][ClipNext]_vars

\* C7: for a fixed threshold T > 0, softclip is monotonic non-decreasing in
\* its non-negative input: x <= y implies softclip(x, T) <= softclip(y, T),
\* also across x = T where the identity branch hands over to the logarithm.
C7_SoftclipMonotonic ==
    (clip_x # NotComputed /\ clip_y # NotComputed /\ array_x <= array_y)
        => clip_x <= clip_y

\* ------------------------------------------------------------------------
\* ColorWheel (colorwheel.py)
\* ------------------------------------------------------------------------
\* colours the constructor is handed (the colors argument)
Palette == {"red", "green", "blue"}
\* things handed to __call__ and assign: the python values 1, 1.5, 2, 'tau'
Things == {"1", "1.5", "2", "tau"}
\* number of __call__/assign operations on the instance
MaxOps == 4
\* number of entries of the constructor's assignments argument
MaxAssignments == 2

\* make_key: int(thing), or the thing itself when int() raises ValueError;
\* int(1.5) truncates to 1
make_key(thing) == IF thing = "1.5" THEN "1" ELSE thing

\* list.remove(color): the list without the first occurrence of color
RECURSIVE ListRemove(_, _)
ListRemove(list, color) ==
    IF list = <<>> THEN <<>>
    ELSE IF Head(list) = color THEN Tail(list)
    ELSE <<Head(list)>> \o ListRemove(Tail(list), color)

InList(list, color) == \E i \in 1..Len(list) : list[i] = color

DictSet(dict, key, value) ==
    [k \in (DOMAIN dict) \cup {key} |-> IF k = key THEN value ELSE dict[k]]

\* assign(thing, color) on the pair (colors, assigned_colors)
assign(wheel, thing, color) ==
    [colors |-> IF InList(wheel.colors, color)
                THEN ListRemove(wheel.colors, color) ELSE wheel.colors,
     assigned_colors |-> DictSet(wheel.assigned_colors, make_key(thing), color)]

\* every order np.random.shuffle can leave a list of distinct colours in
Shuffles(S) ==
    {q \in [1..Cardinality(S) -> S] : \A i, j \in 1..Cardinality(S) : q[i] = q[j] => i = j}

\* the constructor's assignments argument, as the sequence of its items
AssignmentLists ==
    UNION {[1..n -> Things \X Palette] : n \in 0..MaxAssignments}

RECURSIVE AssignAll(_, _)
AssignAll(wheel, items) ==
    IF items = <<>> THEN wheel
    ELSE AssignAll(assign(wheel, Head(items)[1], Head(items)[2]), Tail(items))

\* __init__
WheelInit ==
    /\ \E S \in (SUBSET Palette) \ {{}} : \E shuffled \in Shuffles(S) :
       \E assignments \in AssignmentLists :
         LET wheel == AssignAll([colors |-> shuffled, assigned_colors |-> <<>>],
                                assignments)
         IN  /\ original_colors = shuffled
             /\ colors = wheel.colors
             /\ assigned_colors = wheel.assigned_colors
    /\ returned = [t \in Things |-> {}]
    /\ wheel_error = "none"
    /\ n_ops = 0
    /\ ClipIdle
    /\ LossIdle
    /\ LoopIdle

\* __call__(thing)
Call(thing) ==
    /\ n_ops < MaxOps
    /\ n_ops' = n_ops + 1
    /\ LET key == make_key(thing) IN
       IF key \in DOMAIN assigned_colors
       THEN /\ returned' = [returned EXCEPT ![thing] = @ \cup {assigned_colors[key]}]
            /\ wheel_error' = "none"
            /\ UNCHANGED <<colors, assigned_colors>>
       ELSE IF colors = <<>>
       THEN \* self.colors.pop() on an empty list
            /\ wheel_error' = "IndexError"
            /\ UNCHANGED <<colors, assigned_colors, returned>>
       ELSE LET color == colors[Len(colors)]
                rest  == SubSeq(colors, 1, Len(colors) - 1)
            IN  /\ assigned_colors' = DictSet(assigned_colors, key, color)
                /\ colors' = IF rest = <<>> THEN original_colors ELSE rest
                /\ returned' = [returned EXCEPT ![thing] = @ \cup {color}]
                /\ wheel_error' = "none"
    /\ UNCHANGED <<original_colors, clipVars, lossVars, loopVars>>

\* assign(thing, color)
Assign(thing, color) ==
    /\ n_ops < MaxOps
    /\ n_ops' = n_ops + 1
    /\ LET wheel == assign([colors |-> colors, assigned_colors |-> assigned_colors],
                           thing, color)
       IN  /\ colors' = wheel.colors
           /\ assigned_colors' = wheel.assigned_colors
    /\ wheel_error' = "none"
    /\ UNCHANGED <<original_colors, returned, clipVars, lossVars, loopVars>>

WheelNext ==
    \/ \E thing \in Things : Call(thing)
    \/ \E thing \in Things, color \in Palette : Assign(thing, color)

WheelSpec == WheelInit /\ [][WheelNext]_vars

\* C9: over any sequence of __call__ and assign operations on one instance,
\* every __call__ returns a colour without error, and a __call__ with the
\* same thing returns the colour every earlier __call__ with it returned.
C9_WheelConsistent ==
    /\ wheel_error = "none"
    /\ \A t \in Things : Cardinality(returned[t]) <= 1

\* ------------------------------------------------------------------------
\* Specification of loss_fn and test() as functions of their inputs
\* ------------------------------------------------------------------------
\* epoch indices 0..MaxLossEpoch handed to loss_fn
MaxLossEpoch == 9
\* len(test_loader)
MaxTestBatches == 2

\* the batches test() is run on: one point each, a full batch of events
TestBatches == {b \in Batches : Len(b.points) = 1 /\ b.n_events = batch_size}
\* the epochs test() is run in: the last annealed one and the first full one
TestEpochs == {last_annealed_epoch, last_annealed_epoch + 1}

LossInit ==
    /\ script \in Scripts
    /\ fn \in {"loss_fn", "test"}
    /\ IF fn = "loss_fn"
       THEN data \in Batches /\ i_epoch = 0 /\ N_test = 0
       ELSE data = NoBatch /\ i_epoch \in TestEpochs /\ N_test \in 1..MaxTestBatches
    /\ train_losses = <<>> /\ components = <<>> /\ lp_batch_size = NotComputed
    /\ loss_components = <<>> /\ n_seen = 0 /\ test_loss = NoValue
    /\ val_scalars = <<>> /\ val_LV = 0 /\ val_Lbeta = 0
    /\ ClipIdle
    /\ WheelIdle
    /\ LoopIdle

\* loss = loss_fn(result, data, i_epoch=epoch), for the next epoch index
TrainLoss ==
    /\ fn = "loss_fn"
    /\ i_epoch <= MaxLossEpoch
    /\ train_losses' = Append(train_losses, loss_fn(script, data, i_epoch))
    /\ i_epoch' = i_epoch + 1
    /\ lp_batch_size' = IF script = "train_taus_with_props"
                        THEN calc_Lp_batch_size(data) ELSE lp_batch_size
    /\ UNCHANGED <<fn, script, data, components, loss_components, N_test, n_seen,
                   test_loss, val_scalars, val_LV, val_Lbeta, clipVars, wheelVars, loopVars>>

\* loss_fn(result, data, return_components=True)
Components ==
    /\ fn = "loss_fn"
    /\ DOMAIN components = {}
    /\ components' = loss_fn_components(script, data)
    /\ lp_batch_size' = IF script = "train_taus_with_props"
                        THEN calc_Lp_batch_size(data) ELSE lp_batch_size
    /\ UNCHANGED <<fn, script, data, i_epoch, train_losses, loss_components, N_test,
                   n_seen, test_loss, val_scalars, val_LV, val_Lbeta, clipVars, wheelVars, loopVars>>

\* test(): one turn of the loop over test_loader
TestBatch ==
    /\ fn = "test"
    /\ n_seen < N_test
    /\ \E batch \in TestBatches :
        /\ loss_components' = update(loss_components, loss_fn_components(script, batch))
        /\ val_scalars' = Append(val_scalars, loss_fn(script, batch, i_epoch))
        /\ val_LV' = val_LV + batch.L_V
        /\ val_Lbeta' = val_Lbeta + batch.L_beta
    /\ n_seen' = n_seen + 1
    /\ UNCHANGED <<fn, script, data, i_epoch, train_losses, components, lp_batch_size,
                   N_test, test_loss, clipVars, wheelVars, loopVars>>

\* test(): divide by the number of entries and return the total
TestReturn ==
    /\ fn = "test"
    /\ n_seen = N_test
    /\ test_loss = NoValue
    /\ loss_components' = averaged(loss_components, N_test)
    /\ test_loss' = test_loss_of(script, averaged(loss_components, N_test))
    /\ UNCHANGED <<fn, script, data, i_epoch, train_losses, components, lp_batch_size,
                   N_test, n_seen, val_scalars, val_LV, val_Lbeta, clipVars, wheelVars, loopVars>>

LossNext == TrainLoss \/ Components \/ TestBatch \/ TestReturn

LossSpec == LossInit /\ [][LossNext]_vars

RECURSIVE FSum(_)
FSum(seq) == IF seq = <<>> THEN Fin(0) ELSE FAdd(Head(seq), FSum(Tail(seq)))

\* C4: in train_taus.py the scalar loss handed to backward() is
\* L_V + loss_offset for every epoch index 0..7 and L_V + L_beta + loss_offset
\* for every epoch index >= 8, so with a nonzero L_beta the totals of epoch 7
\* and epoch 8 differ for the same input.
C4_Annealing ==
    (fn = "loss_fn" /\ script = "train_taus") =>
        /\ \A e \in 0..(Len(train_losses) - 1) :
              train_losses[e + 1] = IF e <= 7
                                    THEN Fin(data.L_V + 1)
                                    ELSE Fin(data.L_V + data.L_beta + 1)
        /\ (Len(train_losses) >= 9 /\ data.L_beta # 0)
              => train_losses[8] # train_losses[9]

C4_Witness ==
    /\ fn = "loss_fn" /\ script = "train_taus"
    /\ Len(train_losses) >= 9 /\ data.L_beta # 0

\* C6: the total loss the Loss Combiner returns (and its annealed variants)
\* is never negative, whatever the values and signs of L_V, L_beta and L_p.
C6_TotalNeverNegative ==
    /\ \A e \in 1..Len(train_losses) : ~FLt(train_losses[e], Fin(0))
    /\ ("L_total" \in DOMAIN components) => ~FLt(components.L_total, Fin(0))

\* C8: every call of calc_Lp by loss_fn normalises by the number of events
\* actually present in the batch, also for a final batch holding fewer
\* events than the configured batch size.
C8_NormalisedByEventsPresent ==
    (fn = "loss_fn" /\ lp_batch_size # NotComputed) => lp_batch_size = data.n_events

\* C10 as stated: in each script the component mapping holds L_total, which
\* equals the training scalar of the same batch for every epoch index, and
\* the validation scalar is that L_total averaged over the validation batches.
C10_TotalSameInBothModes ==
    /\ (fn = "loss_fn" /\ DOMAIN components # {}) =>
          /\ "L_total" \in DOMAIN components
          /\ \A e \in 1..Len(train_losses) : train_losses[e] = components.L_total
    /\ (fn = "test" /\ test_loss # NoValue) =>
          test_loss = FDivN(FSum(val_scalars), N_test)

\* C10 as amended: that holds of train_taus_with_props.py. In train_taus.py
\* test() returns loss_offset + mean(L_V) + mean(L_beta) of the mapping the
\* clustering loss returned; per batch loss_offset + L_V + L_beta equals the
\* training scalar for epoch indices >= 8, and exceeds it by L_beta for 0..7.
C10_Amended ==
    /\ (fn = "loss_fn" /\ script = "train_taus_with_props" /\ DOMAIN components # {}) =>
          /\ "L_total" \in DOMAIN components
          /\ \A e \in 1..Len(train_losses) : train_losses[e] = components.L_total
    /\ (fn = "test" /\ script = "train_taus_with_props" /\ test_loss # NoValue) =>
          test_loss = FDivN(FSum(val_scalars), N_test)
    /\ (fn = "loss_fn" /\ script = "train_taus" /\ DOMAIN components # {}) =>
          \A e \in 0..(Len(train_losses) - 1) :
              FAdd(FAdd(Fin(loss_offset), components.L_V), components.L_beta)
                  = FAdd(train_losses[e + 1], IF e <= 7 THEN components.L_beta ELSE Fin(0))
    /\ (fn = "test" /\ script = "train_taus" /\ test_loss # NoValue) =>
          test_loss = Fin(loss_offset + (val_LV \div N_test) + (val_Lbeta \div N_test))

C10_Witness ==
    /\ fn = "test" /\ test_loss # NoValue /\ N_test = MaxTestBatches
    /\ script = "train_taus" /\ i_epoch <= 7 /\ val_Lbeta # 0

\* ------------------------------------------------------------------------
\* main(): the epoch loop with train(), write_checkpoint() and test()
\* ------------------------------------------------------------------------
\* n_epochs (400 in both scripts), bounded
n_epochs == 5
\* len(train_dataset), bounded
MaxTrainEvents == 5
\* len(test_dataset), bounded
TestEvents == 2
\* multiply_batch_size = 6 (train_taus.py:51)
multiply_batch_size == 6
\* min_loss = 1e9 (train_taus_with_props.py:222, train_taus.py:180)
min_loss_init == 1000000000

TrainSizes == {MaxTrainEvents - 1, MaxTrainEvents}

\* the batch_size the DataLoaders are built with
loader_batch_size(s) ==
    IF s = "train_taus" THEN batch_size * multiply_batch_size ELSE batch_size

\* DataLoader(dataset, batch_size=bs): the number of events of each batch
RECURSIVE LoaderSizes(_, _)
LoaderSizes(n, bs) ==
    IF n <= 0 THEN <<>>
    ELSE IF n <= bs THEN <<n>>
    ELSE <<bs>> \o LoaderSizes(n - bs, bs)

\* data.inpz of the k-th batch (k from 0) of a loader
BatchInpz(k, sizes, bs) == {k * bs + j : j \in 1..sizes[k + 1]}

train_loader == LoaderSizes(n_train, loader_batch_size(script))
test_loader == LoaderSizes(TestEvents, loader_batch_size(script))

\* the scheduler is stepped whatever the settings
has_scheduler_always == TRUE

\* the scheduler exists unless train_taus.py runs with --settings-Sep01
has_scheduler == ~settings_Sep01

\* what the model predicts for a training batch, with the batch's truth
TrainOutputs ==
    [points : {<<[y |-> 0, beta |-> 76, L_energy |-> 8, L_position |-> 4]>>,
               <<[y |-> 1, beta |-> 76, L_energy |-> 8, L_position |-> 4]>>},
     L_V : {2}, L_beta : {1}]

\* what the model predicts for a validation batch, with the batch's truth
ValOutputs ==
    [points : {<<[y |-> 0, beta |-> 76, L_energy |-> 8, L_position |-> 4]>>,
               <<[y |-> 1, beta |-> 76, L_energy |-> 8, L_position |-> 4]>>},
     L_V : {2, 3, min_loss_init}, L_beta : {1}]

AsBatch(out, n) ==
    [points |-> out.points, n_events |-> n, L_V |-> out.L_V, L_beta |-> out.L_beta]

\* test(): the loop over test_loader, from an accumulator
RECURSIVE Accumulate(_, _, _)
Accumulate(s, acc, batches) ==
    IF batches = <<>> THEN acc
    ELSE Accumulate(s, update(acc, loss_fn_components(s, Head(batches))), Tail(batches))

\* test(epoch)
test(s, batches) ==
    test_loss_of(s, averaged(Accumulate(s, <<>>, batches), Len(batches)))

\* the loop stops early, one epoch short
range_one_short(e) == IF e + 1 < n_epochs - 1 THEN "train" ELSE "done"

\* for i_epoch in range(n_epochs): where the loop goes after epoch e
range_next(e) == IF e + 1 < n_epochs THEN "train" ELSE "done"

\* if test_loss < min_loss
is_new_best(t, m) == FLt(t, m)

LoopInit ==
    /\ script \in Scripts
    /\ dry \in BOOLEAN
    /\ settings_Sep01 \in (IF script = "train_taus" THEN BOOLEAN ELSE {FALSE})
    /\ n_train \in TrainSizes
    /\ N_test = Len(LoaderSizes(TestEvents, loader_batch_size(script)))
    /\ pc = "train" /\ i_epoch = 0
    /\ data = NoBatch /\ inpz = {} /\ i_batch = 0 /\ loss = NoValue
    /\ training = FALSE /\ params = 0
    /\ min_loss = Fin(min_loss_init)
    /\ ckpt_epoch = <<>> /\ ckpt_best = NotComputed
    /\ test_loss = NoValue
    /\ exc = "none" /\ printed = {}
    /\ log = <<>> /\ epochs_done = <<>> /\ val_totals = <<>> /\ best_epochs = {}
    /\ raised_exc = "none" /\ raised_inpz = {}
    /\ fn = "none" /\ train_losses = <<>> /\ components = <<>>
    /\ lp_batch_size = NotComputed /\ loss_components = <<>> /\ n_seen = 0
    /\ val_scalars = <<>> /\ val_LV = 0 /\ val_Lbeta = 0
    /\ ClipIdle
    /\ WheelIdle

idleInLoop == <<clipVars, wheelVars, lossOnlyVars, script, N_test, dry, settings_Sep01, n_train>>

Logged(ev) == Append(log, <<ev, i_epoch>>)

\* train(epoch) up to the try: model.train(); scheduler.step()
Train ==
    /\ pc = "train"
    /\ training' = TRUE
    /\ log' = IF has_scheduler
              THEN <<(<<"train", i_epoch>>), (<<"scheduler.step", i_epoch>>)>>
              ELSE <<(<<"train", i_epoch>>)>>
    /\ data' = NoBatch /\ inpz' = {} /\ i_batch' = 0 /\ loss' = NoValue
    /\ pc' = "next_batch"
    /\ UNCHANGED <<idleInLoop, i_epoch, test_loss, params, min_loss, ckpt_epoch,
                   ckpt_best, exc, printed, epochs_done, val_totals, best_epochs,
                   raised_exc, raised_inpz>>

\* for i, data in enumerate(pbar): the loader yields its next batch, or is
\* exhausted and train() returns
NextBatch ==
    /\ pc = "next_batch"
    /\ IF i_batch < Len(train_loader)
       THEN /\ \E out \in TrainOutputs : data' = AsBatch(out, train_loader[i_batch + 1])
            /\ inpz' = BatchInpz(i_batch, train_loader, loader_batch_size(script))
            /\ i_batch' = i_batch + 1
            /\ pc' = "to_device"
       ELSE /\ pc' = "checkpoint"
            /\ UNCHANGED <<data, inpz, i_batch>>
    /\ UNCHANGED <<idleInLoop, i_epoch, test_loss, loss, training, params, min_loss,
                   ckpt_epoch, ckpt_best, exc, printed, log, epochs_done, val_totals,
                   best_epochs, raised_exc, raised_inpz>>

stepVars == <<idleInLoop, i_epoch, test_loss, data, inpz, i_batch, training, min_loss,
              ckpt_epoch, ckpt_best, exc, printed, epochs_done, val_totals,
              best_epochs, raised_exc, raised_inpz>>

\* data = data.to(device)
ToDevice ==
    /\ pc = "to_device"
    /\ pc' = "zero_grad"
    /\ UNCHANGED <<stepVars, loss, params, log>>

\* optimizer.zero_grad()
ZeroGrad ==
    /\ pc = "zero_grad"
    /\ log' = Logged("zero_grad")
    /\ pc' = "forward"
    /\ UNCHANGED <<stepVars, loss, params>>

\* result = model(data.x, data.batch)
Forward ==
    /\ pc = "forward"
    /\ log' = Logged("forward")
    /\ pc' = "loss"
    /\ UNCHANGED <<stepVars, loss, params>>

\* loss = loss_fn(result, data) / loss_fn(result, data, i_epoch=epoch)
Loss ==
    /\ pc = "loss"
    /\ loss' = loss_fn(script, data, i_epoch)
    /\ log' = Logged("loss")
    /\ pc' = "backward"
    /\ UNCHANGED <<stepVars, params>>

\* loss.backward()
Backward ==
    /\ pc = "backward"
    /\ log' = Logged("backward")
    /\ pc' = "optimizer_step"
    /\ UNCHANGED <<stepVars, loss, params>>

\* optimizer.step()
OptimizerStep ==
    /\ pc = "optimizer_step"
    /\ params' = params + 1
    /\ log' = Logged("optimizer.step")
    /\ pc' = "batch_step"
    /\ UNCHANGED <<stepVars, loss>>

\* scheduler.batch_step(); pbar.set_postfix(...)
BatchStep ==
    /\ pc = "batch_step"
    /\ log' = IF has_scheduler THEN Logged("scheduler.batch_step") ELSE log
    /\ pc' = "next_batch"
    /\ UNCHANGED <<stepVars, loss, params>>

InTry == {"next_batch", "to_device", "zero_grad", "forward", "loss", "backward",
          "optimizer_step", "batch_step"}

\* a statement of the try block raises: the loader producing a batch, the
\* device transfer, the forward pass, the loss, the backward pass, the
\* optimizer step or the scheduler's batch step
Raise ==
    /\ pc \in InTry
    /\ pc = "next_batch" => i_batch < Len(train_loader)
    /\ exc' = "RuntimeError"
    /\ raised_exc' = "RuntimeError"
    /\ raised_inpz' = IF pc = "next_batch"
                      THEN BatchInpz(i_batch, train_loader, loader_batch_size(script))
                      ELSE inpz
    /\ pc' = "except"
    /\ UNCHANGED <<idleInLoop, i_epoch, test_loss, data, inpz, i_batch, loss, training,
                   params, min_loss, ckpt_epoch, ckpt_best, printed, log, epochs_done,
                   val_totals, best_epochs>>

\* except Exception: print(..., data, ...); print(the npzs of data.inpz); raise
Except ==
    /\ pc = "except"
    /\ IF data = NoBatch
       THEN \* data was never assigned in this call of train()
            /\ exc' = "UnboundLocalError"
            /\ printed' = {}
       ELSE /\ printed' = inpz
            /\ exc' = exc
    /\ pc' = "raised"
    /\ UNCHANGED <<idleInLoop, i_epoch, test_loss, data, inpz, i_batch, loss, training,
                   params, min_loss, ckpt_epoch, ckpt_best, log, epochs_done,
                   val_totals, best_epochs, raised_exc, raised_inpz>>

\* write_checkpoint(i_epoch)
WriteCheckpoint ==
    /\ pc = "checkpoint"
    /\ ckpt_epoch' = IF dry THEN ckpt_epoch
                     ELSE [e \in (DOMAIN ckpt_epoch) \cup {i_epoch} |->
                              IF e = i_epoch THEN params ELSE ckpt_epoch[e]]
    /\ log' = Logged("write_checkpoint")
    /\ pc' = "test"
    /\ UNCHANGED <<idleInLoop, i_epoch, test_loss, data, inpz, i_batch, loss, training,
                   params, min_loss, ckpt_best, exc, printed, epochs_done, val_totals,
                   best_epochs, raised_exc, raised_inpz>>

\* test_loss = test(i_epoch)
Test ==
    /\ pc = "test"
    /\ training' = FALSE
    /\ \E outs \in [1..N_test -> ValOutputs] :
         LET returned_loss ==
                 test(script, [j \in 1..N_test |-> AsBatch(outs[j], test_loader[j])])
         IN  /\ test_loss' = returned_loss
             /\ val_totals' = Append(val_totals, returned_loss)
    /\ log' = Logged("test")
    /\ pc' = "min_loss"
    /\ UNCHANGED <<idleInLoop, i_epoch, data, inpz, i_batch, loss, params, min_loss,
                   ckpt_epoch, ckpt_best, exc, printed, epochs_done, best_epochs,
                   raised_exc, raised_inpz>>

\* if test_loss < min_loss: min_loss = test_loss; write_checkpoint(i_epoch, best=True)
\* and the for loop's next turn
MinLoss ==
    /\ pc = "min_loss"
    /\ IF is_new_best(test_loss, min_loss)
       THEN /\ min_loss' = test_loss
            /\ ckpt_best' = IF dry THEN ckpt_best ELSE params
            /\ best_epochs' = best_epochs \cup {i_epoch}
       ELSE UNCHANGED <<min_loss, ckpt_best, best_epochs>>
    /\ epochs_done' = Append(epochs_done, i_epoch)
    /\ pc' = range_next(i_epoch)
    /\ log' = Logged("min_loss")
    /\ i_epoch' = IF range_next(i_epoch) = "train" THEN i_epoch + 1 ELSE i_epoch
    /\ UNCHANGED <<idleInLoop, test_loss, data, inpz, i_batch, loss, training, params,
                   ckpt_epoch, exc, printed, val_totals, raised_exc, raised_inpz>>

LoopNext ==
    \/ Train \/ NextBatch \/ ToDevice \/ ZeroGrad \/ Forward \/ Loss \/ Backward
    \/ OptimizerStep \/ BatchStep \/ Raise \/ Except
    \/ WriteCheckpoint \/ Test \/ MinLoss

LoopSpec == LoopInit /\ [][LoopNext]_vars

\* C1: ckpt_best is written in epoch e if and only if the validation total
\* of epoch e is strictly less than that of every earlier epoch; a tie never
\* writes it and epoch 0 always does, whatever the validation totals are.
C1_BestIffStrictMinimum ==
    ~dry =>
        \A e \in 0..(Len(epochs_done) - 1) :
            (e \in best_epochs) <=>
                (\A earlier \in 0..(e - 1) : FLt(val_totals[e + 1], val_totals[earlier + 1]))

PhaseEvents == {"train", "write_checkpoint", "test", "min_loss"}
IsPhase(entry) == entry[1] \in PhaseEvents
PhasesOf(e) ==
    <<(<<"train", e>>), (<<"write_checkpoint", e>>), (<<"test", e>>), (<<"min_loss", e>>)>>

\* C2: while no exception is raised, the epochs 0..n_epochs-1 run in
\* increasing order, each once; each epoch runs the train phase, then the
\* checkpoint write tagged with its index, then the validation phase, then
\* best-model tracking; the loop ends after the last epoch and not before.
C2_InOrder ==
    (pc # "none" /\ raised_exc = "none") =>
        LET phases == SelectSeq(log, IsPhase) IN
        /\ i_epoch \in 0..(n_epochs - 1)
        /\ epochs_done = [j \in 1..Len(epochs_done) |-> j - 1]
        /\ Len(epochs_done) = IF pc = "done" THEN n_epochs ELSE i_epoch
        /\ Len(val_totals) = IF pc = "min_loss" THEN i_epoch + 1 ELSE Len(epochs_done)
        /\ ~dry => DOMAIN ckpt_epoch =
                      0..(IF pc \in {"test", "min_loss", "done"} THEN i_epoch ELSE i_epoch - 1)
        /\ pc = "train" => phases = IF i_epoch = 0 THEN <<>> ELSE PhasesOf(i_epoch - 1)
        /\ pc \in InTry \cup {"checkpoint"} => phases = SubSeq(PhasesOf(i_epoch), 1, 1)
        /\ pc = "test" => phases = SubSeq(PhasesOf(i_epoch), 1, 2)
        /\ pc = "min_loss" => phases = SubSeq(PhasesOf(i_epoch), 1, 3)
        /\ pc = "done" => phases = PhasesOf(n_epochs - 1)

\* how far the run has come: epochs completed, then the phase of the
\* current epoch, then the batches the loader has yielded, then the
\* statement of the batch loop
C2_StatementRank ==
    CASE pc = "to_device" -> 1 [] pc = "zero_grad" -> 2 [] pc = "forward" -> 3
      [] pc = "loss" -> 4 [] pc = "backward" -> 5 [] pc = "optimizer_step" -> 6
      [] pc = "batch_step" -> 7 [] pc = "next_batch" -> 8 [] pc = "except" -> 9
      [] OTHER -> 0
C2_PhaseRank ==
    CASE pc \in {"train", "done"} -> 0
      [] pc \in InTry \cup {"except"} -> 1
      [] pc = "raised" -> 2 [] pc = "checkpoint" -> 3 [] pc = "test" -> 4
      [] pc = "min_loss" -> 5
      [] OTHER -> 0
C2_Progress ==
    ((Len(epochs_done) * 6 + C2_PhaseRank) * (MaxTrainEvents + 2) + i_batch) * 10
        + C2_StatementRank

\* C2, whole: the order above holds in every state, and every step of the
\* run moves it forward, so the loop ends after the last epoch.
C2_EpochsAndPhasesInOrder ==
    []C2_InOrder /\ [][C2_Progress' > C2_Progress]_vars

C2_Witness ==
    /\ pc = "done" /\ raised_exc = "none"
    /\ epochs_done = [j \in 1..n_epochs |-> j - 1]

\* C3: when a statement of train()'s batch loop raises (the loader producing
\* a batch, the first one included), the source-file ids of the batch being
\* processed are printed and that same exception propagates out of train().
C3_IdsPrintedThenSameExceptionRaised ==
    pc = "raised" => (printed = raised_inpz /\ exc = raised_exc)

\* C5: a training batch without a signal point is guarded: backward() and
\* optimizer.step() never run with a non-finite total loss.
C5_DegenerateBatchGuarded ==
    (pc \in {"backward", "optimizer_step"} /\ \A i \in 1..Len(data.points) : data.points[i].y = 0)
        => IsFinite(loss)

\* ------------------------------------------------------------------------
\* train(): the statements of one epoch's training, as logged
\* ------------------------------------------------------------------------
RECURSIVE C11_Repeat(_, _)
C11_Repeat(seq, n) == IF n <= 0 THEN <<>> ELSE seq \o C11_Repeat(seq, n - 1)

\* the statements one batch executes, with or without a scheduler
C11_BatchStatements(sched) ==
    <<"zero_grad", "forward", "loss", "backward", "optimizer.step">>
        \o (IF sched THEN <<"scheduler.batch_step">> ELSE <<>>)

\* what train() has executed after `full` whole batches and the first
\* `partial` statements of the next one
C11_TrainLog(sched, full, partial) ==
    <<"train">> \o (IF sched THEN <<"scheduler.step">> ELSE <<>>)
        \o C11_Repeat(C11_BatchStatements(sched), full)
        \o SubSeq(C11_BatchStatements(sched), 1, partial)

\* the statements of the current batch already executed at a position
C11_Executed ==
    CASE pc = "forward" -> 1 [] pc = "loss" -> 2 [] pc = "backward" -> 3
      [] pc = "optimizer_step" -> 4 [] pc = "batch_step" -> 5
      [] OTHER -> 0

C11_IsTrainEntry(entry) == entry[1] \notin {"write_checkpoint", "test", "min_loss"}
C11_IsOptimizerStep(entry) == entry[1] = "optimizer.step"
C11_IsPrefix(a, b) == Len(a) <= Len(b) /\ a = SubSeq(b, 1, Len(a))

\* the order of the statements of the current epoch's train(), given whether
\* the scheduler is stepped
C11_Order(sched) ==
    LET entries == SelectSeq(log, C11_IsTrainEntry)
        names == [j \in 1..Len(entries) |-> entries[j][1]]
        whole == C11_TrainLog(sched, Len(train_loader), 0)
    IN  /\ pc \in InTry => training
        /\ pc = "train" => (names = <<>> \/ names = whole)
        /\ pc = "next_batch" => names = C11_TrainLog(sched, i_batch, 0)
        /\ pc \in InTry \ {"next_batch"} =>
               names = C11_TrainLog(sched, i_batch - 1, C11_Executed)
        /\ pc \in {"checkpoint", "test", "min_loss", "done"} => names = whole
        /\ pc \in {"except", "raised"} => C11_IsPrefix(names, whole)
        /\ \A j \in 1..Len(entries) : entries[j][2] = entries[1][2]

\* the parameters have changed once per optimizer step executed, and by
\* nothing else: the steps of the epochs before the logged one, each with
\* all batches of the loader, and those logged for the current epoch
C11_ParamsOnlyByOptimizerStep ==
    params = IF log = <<>> THEN 0
             ELSE log[1][2] * Len(train_loader)
                      + Len(SelectSeq(log, C11_IsOptimizerStep))

\* C11 as stated: in every training epoch the scheduler's epoch-level step
\* is taken exactly once, after the switch to training mode and before the
\* first batch; each batch executes zero-gradients, forward pass, total loss,
\* backward pass, optimizer step, scheduler batch-level step in that order;
\* the parameters change only by the optimizer step, after the batch's
\* backward pass.
C11_SchedulerSteppedEveryEpoch ==
    C11_Order(TRUE) /\ C11_ParamsOnlyByOptimizerStep

\* C11 as amended: that holds of train_taus_with_props.py and of
\* train_taus.py without --settings-Sep01; with --settings-Sep01
\* train_taus.py takes neither scheduler step, and each batch executes
\* zero-gradients, forward pass, total loss, backward pass, optimizer step
\* in that order.
C11_Amended ==
    C11_Order(~(script = "train_taus" /\ settings_Sep01))
        /\ C11_ParamsOnlyByOptimizerStep

C11_Witness ==
    /\ script = "train_taus" /\ settings_Sep01
    /\ pc = "done" /\ raised_exc = "none"
    /\ params = n_epochs * Len(train_loader)

\* ------------------------------------------------------------------------
\* main(): min_loss and the best checkpoint after completed epochs
\* ------------------------------------------------------------------------
\* C12: in a non-dry run without exception, after every completed epoch
\* min_loss equals the minimum validation total over the completed epochs,
\* and ckpt_best holds the parameters stored in the per-epoch checkpoint of
\* the earliest epoch attaining that minimum (test() and write_checkpoint()
\* leave the parameters alone).
C12_BestIsEarliestMinimum ==
    (~dry /\ raised_exc = "none" /\ pc \in {"train", "done"} /\ Len(epochs_done) >= 1) =>
        \E e \in 1..Len(epochs_done) :
            /\ min_loss = val_totals[e]
            /\ \A j \in 1..Len(epochs_done) : ~FLt(val_totals[j], min_loss)
            /\ \A j \in 1..(e - 1) : val_totals[j] # min_loss
            /\ ckpt_best = ckpt_epoch[e - 1]

====
